---------------------------- MODULE Spec2Model ----------------------------
(***************************************************************************)
(* rotee (src/src/main.rs): split stdin between rotating output files.     *)
(*                                                                         *)
(* The process is modelled statement by statement: main's option checks,   *)
(* run's read/slice loop, rotate's signal-mask envelope and rotate_inner's *)
(* close / shift / create sequence.  The environment supplies the input    *)
(* stream, the way reads are chunked, I/O failures and SIGTERM.            *)
(*                                                                         *)
(* The output directory is a function from file index to a file; the file  *)
(* named {file_prefix}{i} is fs[i].  A file carries an identity `id' so    *)
(* that an open handle keeps referring to the same file across renames.    *)
(* The directory is empty when the process starts (the test harnesses run  *)
(* rotee in a fresh temporary directory).                                  *)
(*                                                                         *)
(* rotee never inspects the bytes it copies, so the input stream is        *)
(* modelled with pairwise distinct bytes: the byte at offset k is k.  Any  *)
(* loss, duplication or reordering is then visible in the outputs.         *)
(***************************************************************************)
EXTENDS Integers, Sequences, FiniteSets

(* ------------------------------ bounds -------------------------------- *)

MaxLen == 5

MaxFileSize == 2

MaxNumFiles == 3

MaxBufSize == 2

(* --------------------------- value domains ---------------------------- *)

\* The signals of the model: SIGTERM is the one the environment sends
\* (tests::test_signal); SIGUSR1 only occurs in signal masks.
Sigs == {"SIGTERM", "SIGUSR1"}

SentSigs == {"SIGTERM"}

\* Signal masks the process may be started with.
InitMasks == {{}, {"SIGUSR1"}}

\* One directory slot past the largest num_files, so that a file created
\* outside 0..num_files-1 is representable.
Idx == 0..(MaxNumFiles + 1)

NoFile == [exists |-> FALSE, id |-> 0, data |-> <<>>]

\* The input stream of length n: the byte at offset k is k.
Stream(n) == [k \in 1..n |-> k - 1]

Config == [file_size : 0..MaxFileSize, num_files : 0..MaxNumFiles,
           no_echo : BOOLEAN, buffer_size : 0..MaxBufSize]

\* The concrete run of the lang_tests suite: 25 bytes, -s 10 -n 3 -b 100.
ScenarioConfig == [file_size |-> 10, num_files |-> 3, no_echo |-> FALSE,
                   buffer_size |-> 100]

ScenarioInput == Stream(25)

Min(a, b) == IF a <= b THEN a ELSE b

VARIABLES
    config,      \* struct Config (file_prefix is fixed: fs[i] is {prefix}{i})
    input,       \* the bytes stdin will deliver
    pos,         \* number of input bytes read so far
    fs,          \* the output directory: index -> file
    mirror,      \* the bytes written to stdout
    of,          \* run's open output handle: the id of the file, 0 when closed
    cur_size,    \* run: cur_size
    buf,         \* run: the valid part of buf after the last read
    nbytes,      \* run: nbytes
    idx,         \* run: idx
    bytes,       \* run: the slice being written
    all_sigs,    \* run: all_sigs
    mask,        \* the process signal mask
    old_sigs,    \* rotate: old_sigs
    pending,     \* signals delivered while blocked
    i,           \* rotate_inner: loop index
    res,         \* rotate: res ("none", "ok", "err")
    newf,        \* the id of the file rotate_inner created
    pre,         \* the directory as it was when rotate was called
    nextId,      \* next fresh file identity
    nrot,        \* number of rotate calls that returned a new handle
    written,     \* every byte written to an output file so far, in order
    pc,          \* control point of the process
    status       \* exit status: "running", "success", "failure", "signal"

vars == <<config, input, pos, fs, mirror, of, cur_size, buf, nbytes, idx,
          bytes, all_sigs, mask, old_sigs, pending, i, res, newf, pre,
          nextId, nrot, written, pc, status>>

fileVars == <<fs, nextId>>
loopVars == <<pos, buf, nbytes, idx, bytes, cur_size>>
sigVars == <<all_sigs, mask, old_sigs, pending>>
rotVars == <<i, res, newf, pre>>
envVars == <<config, input>>

(* ------------------------- file-system helpers ------------------------ *)

\* outfile_path(prefix, suffix): the name {prefix}{suffix} is slot suffix.
outfile_path(suffix) == suffix

\* Path::exists
Exists(dir, p) == dir[p].exists

\* std::fs::rename: the target name now refers to the source file, whatever
\* it referred to before; the source name is gone.
rename(dir, old_path, new_path) ==
    [dir EXCEPT ![new_path] = dir[old_path], ![old_path] = NoFile]

\* an open with O_CREAT but without O_TRUNC: an existing file keeps its data
FileCreateNoTrunc(dir, p, id) ==
    IF dir[p].exists
    THEN dir
    ELSE [dir EXCEPT ![p] = [exists |-> TRUE, id |-> id, data |-> <<>>]]

\* File::create: a new empty file, or the existing file truncated.
FileCreate(dir, p, id) ==
    IF dir[p].exists
    THEN [dir EXCEPT ![p].data = <<>>]
    ELSE [dir EXCEPT ![p] = [exists |-> TRUE, id |-> id, data |-> <<>>]]

\* A write through handle h appends to the file h refers to, under
\* whatever name that file currently has.
WriteTo(dir, h, bs) ==
    [p \in DOMAIN dir |->
        IF dir[p].exists /\ dir[p].id = h
        THEN [dir[p] EXCEPT !.data = @ \o bs]
        ELSE dir[p]]

Prefix(s, k) == SubSeq(s, 1, k)

(* ----------------------------- run helpers ---------------------------- *)

\* a slice that takes the whole rest of the chunk
WriteSizeUncapped(n, ix, fsize, cur) == n - ix

\* a slice capped by file_size alone, ignoring what the file already holds
WriteSizeNoCur(n, ix, fsize, cur) == Min(n - ix, fsize)

\* line 155: usize::min(nbytes - idx, config.file_size - cur_size)
WriteSize(n, ix, fsize, cur) == Min(n - ix, fsize - cur)

\* a rotation test with > in place of >=
NeedRotateLazy(cur, fsize) == cur > fsize

\* line 164: cur_size >= config.file_size
NeedRotate(cur, fsize) == cur >= fsize

\* an `if' in place of the `while': one slice per chunk
LoopHeadIf(ix, n) == "read"

\* line 154: while idx < nbytes, else back to the read at line 150
LoopHead(ix, n) == IF ix < n THEN "write" ELSE "read"

\* a shift loop that always runs at least the iteration for index 0
FirstShiftClamped(n) == IF n - 2 < 0 THEN 0 ELSE n - 2

\* a shift loop over (0..num_files).rev(): it starts at num_files - 1
FirstShiftOffByOne(n) == n - 1

\* line 73: (0..(num_files - 1)).rev() starts at num_files - 2
FirstShift(n) == n - 2

\* a shift loop over (1..(num_files - 1)).rev(): index 0 is never renamed
AfterShiftSkip0(k) == IF k - 1 >= 1 THEN "shift" ELSE "create"

\* lines 73-80: after index k, the next index, or the create
AfterShift(k) == IF k - 1 >= 0 THEN "shift" ELSE "create"

\* rotate without the SIG_BLOCK: the mask is left as it was
BlockMaskNoBlock(m, set) == m

\* line 53: SIG_BLOCK adds the set to the current mask
BlockMask(m, set) == m \cup set

\* a restore that leaves the mask as it is
RestoreMaskKeep(m, saved) == m

\* a restore that installs the empty mask instead of the saved one
RestoreMaskEmpty(m, saved) == {}

\* line 62: SIG_SETMASK installs the saved mask
RestoreMask(m, saved) == saved

Alive == pc \notin {"exited", "killed"}

(* -------------------------------- Init -------------------------------- *)

Init ==
    /\ \/ /\ config \in Config
          /\ input \in {Stream(n) : n \in 0..MaxLen}
          /\ mask \in InitMasks
       \/ /\ config = ScenarioConfig
          /\ input = ScenarioInput
          /\ mask = {}
    /\ pos = 0
    /\ fs = [p \in Idx |-> NoFile]
    /\ mirror = <<>>
    /\ of = 0
    /\ cur_size = 0
    /\ buf = <<>>
    /\ nbytes = 0
    /\ idx = 0
    /\ bytes = <<>>
    /\ all_sigs = {}
    /\ old_sigs = {}
    /\ pending = {}
    /\ i = 0
    /\ res = "none"
    /\ newf = 0
    /\ pre = fs
    /\ nextId = 1
    /\ nrot = 0
    /\ written = <<>>
    /\ pc = "main"
    /\ status = "running"

(* ------------------------------- main --------------------------------- *)

\* the option checks without the check of file_size
MainNoSizeCheck ==
    /\ pc = "main"
    /\ IF config.buffer_size = 0 \/ config.num_files = 0
       THEN pc' = "exited" /\ status' = "failure"
       ELSE pc' = "create0" /\ status' = status
    /\ UNCHANGED <<envVars, written, fileVars, loopVars, sigVars, rotVars, mirror, of, nrot>>

\* lines 115-125: a zero option is fatal (exit(1)) before run is entered.
Main ==
    /\ pc = "main"
    /\ IF config.buffer_size = 0 \/ config.num_files = 0 \/ config.file_size = 0
       THEN pc' = "exited" /\ status' = "failure"
       ELSE pc' = "create0" /\ status' = status
    /\ UNCHANGED <<envVars, written, fileVars, loopVars, sigVars, rotVars, mirror, of, nrot>>

\* an error exit that removes the output files as cleanup
MainErrCleanup ==
    /\ pc = "fail"
    /\ pc' = "exited"
    /\ status' = "failure"
    /\ of' = 0
    /\ fs' = [p \in Idx |-> NoFile]
    /\ UNCHANGED <<envVars, written, nextId, loopVars, sigVars, rotVars, mirror, nrot>>

\* lines 127-130: run returned Err: print it and exit(1).
MainErr ==
    /\ pc = "fail"
    /\ pc' = "exited"
    /\ status' = "failure"
    /\ of' = 0
    /\ UNCHANGED <<envVars, written, fileVars, loopVars, sigVars, rotVars, mirror, nrot>>

(* -------------------------------- run --------------------------------- *)

\* lines 134-137: create index 0, cur_size = 0, allocate the buffer.
Create0 ==
    /\ pc = "create0"
    /\ \/ /\ fs' = FileCreate(fs, outfile_path(0), nextId)
          /\ of' = fs'[outfile_path(0)].id
          /\ nextId' = nextId + 1
          /\ cur_size' = 0
          /\ pc' = "sigemptyset"
       \/ /\ pc' = "fail"
          /\ UNCHANGED <<fs, of, nextId, cur_size>>
    /\ UNCHANGED <<envVars, written, pos, buf, nbytes, idx, bytes, sigVars, rotVars,
                   mirror, nrot, status>>

\* lines 140-144
SigEmptySet ==
    /\ pc = "sigemptyset"
    /\ \/ all_sigs' = {} /\ pc' = "sigfillset"
       \/ pc' = "fail" /\ UNCHANGED all_sigs
    /\ UNCHANGED <<envVars, written, fileVars, loopVars, mask, old_sigs, pending, rotVars,
                   mirror, of, nrot, status>>

\* lines 145-147
SigFillSet ==
    /\ pc = "sigfillset"
    /\ \/ all_sigs' = Sigs /\ pc' = "read"
       \/ pc' = "fail" /\ UNCHANGED all_sigs
    /\ UNCHANGED <<envVars, written, fileVars, loopVars, mask, old_sigs, pending, rotVars,
                   mirror, of, nrot, status>>

\* lines 150-153: a read returns 0 at end of input (run returns Ok and main
\* returns: success), or between 1 and buffer_size bytes, or fails.
Read ==
    /\ pc = "read"
    /\ \/ /\ pos = Len(input)
          /\ pc' = "exited"
          /\ status' = "success"
          /\ of' = 0
          /\ UNCHANGED <<pos, buf, nbytes, idx>>
       \/ /\ \E n \in 1..Min(config.buffer_size, Len(input) - pos) :
                /\ buf' = SubSeq(input, pos + 1, pos + n)
                /\ nbytes' = n
                /\ pos' = pos + n
          /\ idx' = 0
          /\ pc' = LoopHead(idx', nbytes')
          /\ UNCHANGED <<status, of>>
       \/ /\ pc' = "fail"
          /\ UNCHANGED <<pos, buf, nbytes, idx, status, of>>
    /\ UNCHANGED <<envVars, written, fileVars, bytes, cur_size, sigVars, rotVars, mirror, nrot>>

\* the slice echoed to stdout before it is written to the file (lines
\* 158-160 ahead of line 157)
WriteFileEchoFirst ==
    /\ pc = "write"
    /\ LET write_size == WriteSize(nbytes, idx, config.file_size, cur_size)
       IN  /\ bytes' = SubSeq(buf, idx + 1, idx + write_size)
           /\ mirror' = IF config.no_echo THEN mirror ELSE mirror \o bytes'
           /\ \/ /\ fs' = WriteTo(fs, of, bytes')
                 /\ written' = written \o bytes'
                 /\ pc' = "advance"
              \/ /\ \E k \in 0..(write_size - 1) :
                       /\ fs' = WriteTo(fs, of, Prefix(bytes', k))
                       /\ written' = written \o Prefix(bytes', k)
                 /\ pc' = "fail"
    /\ UNCHANGED <<envVars, nextId, pos, buf, nbytes, idx, cur_size, sigVars,
                   rotVars, of, nrot, status>>

\* a slice always taken from the start of the buffer (&buf[..write_size])
WriteFileFromStart ==
    /\ pc = "write"
    /\ LET write_size == WriteSize(nbytes, idx, config.file_size, cur_size)
       IN  /\ bytes' = SubSeq(buf, 1, write_size)
           /\ \/ /\ fs' = WriteTo(fs, of, bytes')
                 /\ written' = written \o bytes'
                 /\ pc' = IF config.no_echo THEN "advance" ELSE "echo"
              \/ /\ \E k \in 0..(write_size - 1) :
                       /\ fs' = WriteTo(fs, of, Prefix(bytes', k))
                       /\ written' = written \o Prefix(bytes', k)
                 /\ pc' = "fail"
    /\ UNCHANGED <<envVars, nextId, pos, buf, nbytes, idx, cur_size, sigVars,
                   rotVars, mirror, of, nrot, status>>

\* lines 155-157: take the slice and write it to the open file.  A failing
\* write_all has written a proper prefix of the slice.
WriteFile ==
    /\ pc = "write"
    /\ LET write_size == WriteSize(nbytes, idx, config.file_size, cur_size)
       IN  /\ bytes' = SubSeq(buf, idx + 1, idx + write_size)
           /\ \/ /\ fs' = WriteTo(fs, of, bytes')
                 /\ written' = written \o bytes'
                 /\ pc' = IF config.no_echo THEN "advance" ELSE "echo"
              \/ /\ \E k \in 0..(write_size - 1) :
                       /\ fs' = WriteTo(fs, of, Prefix(bytes', k))
                       /\ written' = written \o Prefix(bytes', k)
                 /\ pc' = "fail"
    /\ UNCHANGED <<envVars, nextId, pos, buf, nbytes, idx, cur_size, sigVars,
                   rotVars, mirror, of, nrot, status>>

\* an echo of the whole chunk (&buf[..nbytes]) instead of the slice
EchoChunk ==
    /\ pc = "echo"
    /\ mirror' = mirror \o buf
    /\ pc' = "advance"
    /\ UNCHANGED <<envVars, written, fileVars, loopVars, sigVars, rotVars, of, nrot, status>>

\* lines 158-160: echo the slice to stdout.
Echo ==
    /\ pc = "echo"
    /\ \/ /\ mirror' = mirror \o bytes
          /\ pc' = "advance"
       \/ /\ \E k \in 0..(Len(bytes) - 1) : mirror' = mirror \o Prefix(bytes, k)
          /\ pc' = "fail"
    /\ UNCHANGED <<envVars, written, fileVars, loopVars, sigVars, rotVars, of, nrot, status>>

\* the accounting without `cur_size += write_size' (line 163)
AdvanceNoSize ==
    /\ pc = "advance"
    /\ idx' = idx + Len(bytes)
    /\ cur_size' = cur_size
    /\ pc' = IF NeedRotate(cur_size', config.file_size)
             THEN "block" ELSE LoopHead(idx', nbytes)
    /\ UNCHANGED <<envVars, written, fileVars, pos, buf, nbytes, bytes, sigVars, rotVars,
                   mirror, of, nrot, status>>

\* lines 162-164: account for the slice; rotate when the file is full.
Advance ==
    /\ pc = "advance"
    /\ idx' = idx + Len(bytes)
    /\ cur_size' = cur_size + Len(bytes)
    /\ pc' = IF NeedRotate(cur_size', config.file_size)
             THEN "block" ELSE LoopHead(idx', nbytes)
    /\ UNCHANGED <<envVars, written, fileVars, pos, buf, nbytes, bytes, sigVars, rotVars,
                   mirror, of, nrot, status>>

(* ------------------------------- rotate ------------------------------- *)

\* lines 52-56: block all signals, saving the old mask.  On failure rotate
\* returns at once (old_file is dropped as the call unwinds).
Block ==
    /\ pc = "block"
    /\ \/ /\ old_sigs' = mask
          /\ mask' = BlockMask(mask, all_sigs)
          /\ pc' = "drop"
          /\ UNCHANGED of
       \/ /\ pc' = "fail"
          /\ of' = 0
          /\ UNCHANGED <<old_sigs, mask>>
    /\ res' = "none"
    /\ pre' = fs
    /\ UNCHANGED <<envVars, written, fileVars, loopVars, all_sigs, pending, i, newf,
                   mirror, nrot, status>>

\* a rotation that keeps the old handle open across the renames
DropKeepOpen ==
    /\ pc = "drop"
    /\ i' = FirstShift(config.num_files)
    /\ pc' = AfterShift(i' + 1)
    /\ UNCHANGED <<envVars, written, fileVars, loopVars, sigVars, res, newf, pre, mirror, nrot,
                   status, of>>

\* line 71: drop(old_file); line 73: the loop starts at num_files - 2.
Drop ==
    /\ pc = "drop"
    /\ of' = 0
    /\ i' = FirstShift(config.num_files)
    /\ pc' = AfterShift(i' + 1)
    /\ UNCHANGED <<envVars, written, fileVars, loopVars, sigVars, res, newf, pre, mirror, nrot,
                   status>>

\* the shift loop walking the indices upwards: 0, 1, ..., num_files - 2
ShiftAscending ==
    /\ pc = "shift"
    /\ LET old_path == outfile_path(FirstShift(config.num_files) - i)
           new_path == outfile_path(FirstShift(config.num_files) - i + 1)
       IN  IF Exists(fs, old_path)
           THEN \/ /\ fs' = rename(fs, old_path, new_path)
                   /\ i' = i - 1
                   /\ pc' = AfterShift(i)
                   /\ UNCHANGED res
                \/ /\ res' = "err"
                   /\ pc' = "restore"
                   /\ UNCHANGED <<fs, i>>
           ELSE /\ i' = i - 1
                /\ pc' = AfterShift(i)
                /\ UNCHANGED <<fs, res>>
    /\ UNCHANGED <<envVars, written, nextId, loopVars, sigVars, newf, pre, mirror, of, nrot,
                   status>>

\* lines 73-79: one iteration of the shift loop.  A failing rename leaves
\* the loop at once (the ? operator).
Shift ==
    /\ pc = "shift"
    /\ LET old_path == outfile_path(i)
           new_path == outfile_path(i + 1)
       IN  IF Exists(fs, old_path)
           THEN \/ /\ fs' = rename(fs, old_path, new_path)
                   /\ i' = i - 1
                   /\ pc' = AfterShift(i)
                   /\ UNCHANGED res
                \/ /\ res' = "err"
                   /\ pc' = "restore"
                   /\ UNCHANGED <<fs, i>>
           ELSE /\ i' = i - 1
                /\ pc' = AfterShift(i)
                /\ UNCHANGED <<fs, res>>
    /\ UNCHANGED <<envVars, written, nextId, loopVars, sigVars, newf, pre, mirror, of, nrot,
                   status>>

\* line 80: File::create(outfile_path(prefix, 0))
CreateNew ==
    /\ pc = "create"
    /\ \/ /\ fs' = FileCreate(fs, outfile_path(0), nextId)
          /\ newf' = fs'[outfile_path(0)].id
          /\ nextId' = nextId + 1
          /\ res' = "ok"
       \/ /\ res' = "err"
          /\ UNCHANGED <<fs, newf, nextId>>
    /\ pc' = "restore"
    /\ UNCHANGED <<envVars, written, loopVars, sigVars, i, pre, mirror, of, nrot, status>>

\* lines 61-64: restore the saved mask.  A signal that became pending while
\* blocked is delivered as soon as the mask lets it through, and kills the
\* process.  If the call fails rotate returns its own error.
Restore ==
    /\ pc = "restore"
    /\ \/ /\ mask' = RestoreMask(mask, old_sigs)
          /\ IF pending \ mask' # {}
             THEN pc' = "killed" /\ status' = "signal" /\ pending' = pending \cap mask'
             ELSE pc' = "ret" /\ UNCHANGED <<status, pending>>
          /\ UNCHANGED res
       \/ /\ pc' = "fail"
          /\ res' = "none"
          /\ UNCHANGED <<mask, status, pending>>
    /\ UNCHANGED <<envVars, written, fileVars, loopVars, all_sigs, old_sigs, i, newf, pre,
                   mirror, of, nrot>>

\* a return from rotate that forgets to restart cur_size (line 166 without
\* `cur_size = 0')
ReturnNoReset ==
    /\ pc = "ret"
    /\ IF res = "ok"
       THEN /\ of' = newf
            /\ nrot' = nrot + 1
            /\ pc' = LoopHead(idx, nbytes)
            /\ UNCHANGED cur_size
       ELSE /\ pc' = "fail"
            /\ UNCHANGED <<of, cur_size, nrot>>
    /\ UNCHANGED <<envVars, written, fileVars, pos, buf, nbytes, idx, bytes, sigVars,
                   rotVars, mirror, status>>

\* line 66 and lines 165-166: the result reaches run; on Ok the new handle
\* replaces `of' and cur_size restarts at 0, on Err run returns the error.
Return ==
    /\ pc = "ret"
    /\ IF res = "ok"
       THEN /\ of' = newf
            /\ cur_size' = 0
            /\ nrot' = nrot + 1
            /\ pc' = LoopHead(idx, nbytes)
       ELSE /\ pc' = "fail"
            /\ UNCHANGED <<of, cur_size, nrot>>
    /\ UNCHANGED <<envVars, written, fileVars, pos, buf, nbytes, idx, bytes, sigVars,
                   rotVars, mirror, status>>

(* ----------------------------- environment ---------------------------- *)

\* kill(pid, SIGTERM) (tests::test_signal, line 220): a blocked signal stays
\* pending, any other terminates the process (default disposition).
Signal ==
    /\ Alive
    /\ \E s \in SentSigs :
          IF s \in mask
          THEN /\ pending' = pending \cup {s}
               /\ UNCHANGED <<pc, status, of>>
          ELSE /\ pc' = "killed"
               /\ status' = "signal"
               /\ of' = 0
               /\ UNCHANGED pending
    /\ UNCHANGED <<envVars, written, fileVars, loopVars, all_sigs, mask, old_sigs, rotVars,
                   mirror, nrot>>

Step ==
    \/ Main
    \/ MainErr
    \/ Create0
    \/ SigEmptySet
    \/ SigFillSet
    \/ Read
    \/ WriteFile
    \/ Echo
    \/ Advance
    \/ Block
    \/ Drop
    \/ Shift
    \/ CreateNew
    \/ Restore
    \/ Return

Next == Step \/ Signal

Spec == Init /\ [][Next]_vars

\* The operating system keeps scheduling a live process.
FairSpec == Spec /\ WF_vars(Step)


\* A run in which no call fails and no signal arrives: the steps of the
\* process that do not take an error return (every `?' and every `== -1'
\* test in lines 47-67 and 133-173 passes).
CleanStep == Step /\ pc' # "fail" /\ res' # "err"

CleanSpec == Init /\ [][CleanStep]_vars /\ WF_vars(CleanStep)

(* ============================== claims ================================ *)

\* run has created the initial index-0 file (line 134 succeeded).
Created0 == nextId > 1

\* A SIGTERM sent now would terminate the process.
Killable == Alive /\ ~(SentSigs \subseteq mask)

\* The File::create of a rotation (line 80) has failed.
CreateFailed == res = "err" /\ i = -1

\* C1 (as stated): once the initial index-0 file has been created, in every
\* state in which a SIGTERM can kill the process, and in every state in
\* which one has killed it, the file at index 0 exists.
C1_Index0Present ==
    (Created0 /\ (Killable \/ status = "signal")) => Exists(fs, 0)

\* C1 (amended): as above, unless the File::create of a rotation failed
\* after index 0 had been renamed to index 1; the run is then on its way
\* to a failure exit with index 0 missing.
C1_Index0PresentUnlessCreateFailed ==
    (Created0 /\ (Killable \/ status = "signal")) =>
        (Exists(fs, 0) \/ CreateFailed)

\* C1 witness: with file_size 1, a SIGTERM that arrived inside a rotation
\* killed the process as the mask was restored, and index 0 and index 1
\* both exist.
C1_Witness ==
    /\ status = "signal" /\ res = "ok" /\ nextId = nrot + 3
    /\ config.file_size = 1
    /\ Exists(fs, 0) /\ Exists(fs, 1)

\* The control points of rotate_inner, and those at which rotate holds the
\* blocking mask.
CritPcs == {"drop", "shift", "create"}

MaskedPcs == CritPcs \cup {"restore"}

\* The restoring sigprocmask (line 62) failed: rotate returned at line 63
\* and the mask still blocks.
RestoreFailed == pc \in {"fail", "exited"} /\ SentSigs \subseteq mask

\* C2 (as stated): a SIGTERM never terminates the process during the
\* close/rename/create steps; a process killed at the restore has the saved
\* mask back and ends abnormally; a SIGTERM arriving outside a rotation
\* terminates the process at once; and every delivered signal eventually
\* ends the process with a failure status.
C2_SignalDeferral ==
    /\ [][(pc \in CritPcs) => ~(pc' = "killed")]_vars
    /\ [][(pc = "restore" /\ pc' = "killed") =>
            (mask' = old_sigs /\ status' = "signal")]_vars
    /\ [][(Signal /\ pc \notin MaskedPcs) => (pc' = "killed")]_vars
    /\ [](status = "success" => pending = {})
    /\ (pending # {} ~> status \in {"signal", "failure"})

\* C2 (amended): as stated, except that after a failed restoring
\* sigprocmask the mask keeps blocking outside the rotation: a SIGTERM
\* arriving then stays pending and the process ends with the failure exit
\* of the error path instead of being killed.
C2_SignalDeferralUnlessRestoreFailed ==
    /\ [][(pc \in CritPcs) => ~(pc' = "killed")]_vars
    /\ [][(pc = "restore" /\ pc' = "killed") =>
            (mask' = old_sigs /\ status' = "signal")]_vars
    /\ [][(Signal /\ pc \notin MaskedPcs /\ ~RestoreFailed) => (pc' = "killed")]_vars
    /\ [][(Signal /\ RestoreFailed) => (pc' = pc /\ pending' = SentSigs)]_vars
    /\ [](status = "success" => pending = {})
    /\ (pending # {} ~> status \in {"signal", "failure"})

\* C2 witness: a SIGTERM that arrived inside a successful rotation is
\* pending at the restore.
C2_Witness == pc = "restore" /\ pending = {"SIGTERM"} /\ res = "ok"

\* C3 (as stated): whenever rotate leaves the restore step the mask equals
\* the saved one, a file-system error reaches the caller only with the
\* mask restored, and outside a rotate call the mask is never the blocking
\* mask.
C3_MaskRestored ==
    /\ [][(pc = "restore" /\ pc' # "restore") => mask' = old_sigs]_vars
    /\ [][(res' = "err" /\ pc' = "fail" /\ pc # "fail") =>
            (pc = "ret" /\ mask' = old_sigs)]_vars
    /\ [](pc \notin MaskedPcs => mask # Sigs)

\* C3 (amended): when the restoring sigprocmask succeeds the mask equals
\* the saved one, after a successful rotate_inner and after a failed one,
\* and a file-system error reaches the caller only after that restore.  When
\* the restoring call fails rotate returns its own error with the mask
\* unchanged, and only then is the mask the blocking mask outside rotate.
C3_MaskRestoredUnlessRestoreFailed ==
    /\ [][(pc = "restore" /\ pc' \in {"ret", "killed"}) => mask' = old_sigs]_vars
    /\ [][(pc = "restore" /\ pc' = "fail") => (mask' = mask /\ res' = "none")]_vars
    /\ [][(res' = "err" /\ pc' = "fail" /\ pc # "fail") =>
            (pc = "ret" /\ mask' = old_sigs)]_vars
    /\ []((pc \notin MaskedPcs /\ mask = Sigs) => RestoreFailed)

\* C3 witness: rotate has returned a file-system error with a non-empty
\* saved mask back in place.
C3_Witness ==
    pc = "ret" /\ res = "err" /\ mask = old_sigs /\ old_sigs = {"SIGUSR1"}

\* The directory d after the renames of the shift loop for the indices
\* hi down to lo.
RECURSIVE ShiftRange(_, _, _)
ShiftRange(d, hi, lo) ==
    IF hi < lo THEN d
    ELSE ShiftRange(IF d[hi].exists THEN [d EXCEPT ![hi + 1] = d[hi], ![hi] = NoFile]
                    ELSE d, hi - 1, lo)

\* Every shift rename and the create have been applied to `pre'.
AllApplied ==
    LET d == ShiftRange(pre, config.num_files - 2, 0)
    IN  /\ \A p \in Idx \ {0} : fs[p] = d[p]
        /\ fs[0].exists /\ fs[0].data = <<>>

NoneApplied == fs = pre

\* The renames for the indices num_files-2 down to j+1 have been applied to
\* `pre', and nothing else.
PartlyApplied ==
    \E j \in -1..(config.num_files - 2) :
        fs = ShiftRange(pre, config.num_files - 2, j + 1)

\* C4 (as stated): when rotate returns, either every rename and the create
\* have been applied or nothing has.
C4_AllOrNothing ==
    [][(pc \in {"block", "restore"} /\ pc' \in {"ret", "fail", "killed"}) =>
        (AllApplied' \/ NoneApplied')]_vars

\* C4 (amended): when rotate returns with a new handle every rename and the
\* create have been applied; when blocking failed nothing has; when a rename
\* or the create failed, the renames from index num_files-2 down to some
\* index have been applied and the rest, create included, has not.
C4_AllOrPrefix ==
    /\ [][(pc = "restore" /\ pc' # "restore" /\ res = "ok") => AllApplied']_vars
    /\ [][(pc = "restore" /\ pc' # "restore" /\ res = "err") => PartlyApplied']_vars
    /\ [][(pc = "block" /\ pc' = "fail") => (fs' = fs /\ NoneApplied')]_vars

\* C4 witness: a rotation of two existing files has completed.
C4_Witness ==
    pc = "ret" /\ res = "ok" /\ pre[1].exists /\ AllApplied /\ fs[2] = pre[1]

\* The run ended with run returning Ok(()).
Success == status = "success"

Existing(d) == {p \in Idx : d[p].exists}

\* The files of directory d (identity and content).
Files(d) == {d[p] : p \in Existing(d)}

\* The output files read from index p down to index 0, concatenated.
RECURSIVE ConcatDown(_, _)
ConcatDown(d, p) ==
    IF p < 0 THEN <<>>
    ELSE (IF d[p].exists THEN d[p].data ELSE <<>>) \o ConcatDown(d, p - 1)

\* Number of complete files the input fills.
Quot == Len(input) \div config.file_size

\* Offset of the first input byte still held by some file after a
\* successful run: the files before it have been rotated out.
KeptFrom ==
    IF Quot > config.num_files - 1
    THEN (Quot - (config.num_files - 1)) * config.file_size
    ELSE 0

\* C5 (as stated): after a successful run the files read from the highest
\* index down to index 0 reconstruct the input exactly.
C5_Reconstruct ==
    Success => ConcatDown(fs, MaxNumFiles + 1) = input

\* C5 (amended): after a successful run the files read from the highest
\* index down to index 0 are the input from offset KeptFrom on, without
\* gap, duplicate or reordering: the whole input when it fills at most
\* num_files - 1 files, and otherwise all but the oldest files' bytes,
\* which rotation has discarded.
C5_ReconstructKept ==
    Success =>
        /\ ConcatDown(fs, MaxNumFiles + 1) = SubSeq(input, KeptFrom + 1, Len(input))
        /\ (Quot <= config.num_files - 1 => ConcatDown(fs, MaxNumFiles + 1) = input)

\* C5 witness: a successful run in which rotation discarded the first file
\* and the remaining files hold the rest of the input.
C5_Witness ==
    /\ Success /\ config.num_files >= 2 /\ Quot > config.num_files - 1
    /\ config.buffer_size >= config.file_size
    /\ fs[0].data # <<>>
    /\ KeptFrom > 0

\* C6: after a successful run with echo enabled the mirror equals the
\* input; with echo disabled nothing is ever written to the mirror.
C6_MirrorFidelity ==
    /\ (Success /\ ~config.no_echo) => mirror = input
    /\ config.no_echo => mirror = <<>>

\* C6 witness: a successful echoing run with at least two rotations and a
\* chunk larger than a file.
C6_Witness ==
    /\ Success /\ ~config.no_echo /\ nrot >= 2 /\ mirror = input
    /\ config.buffer_size > config.file_size

\* C7: every existing file at an index other than 0 has exactly file_size
\* bytes, and the file at index 0 has at most file_size bytes.
C7_SizeBound ==
    \A p \in Existing(fs) :
        IF p = 0 THEN Len(fs[p].data) <= config.file_size
        ELSE Len(fs[p].data) = config.file_size

\* C7 witness: between two slice writes, two full rotated files and a
\* partly filled open file.
C7_Witness ==
    /\ pc = "write" /\ fs[2].exists /\ fs[1].exists
    /\ Len(fs[0].data) > 0 /\ Len(fs[0].data) < config.file_size
    /\ of = fs[0].id

\* C8: in every state at most num_files files exist, all at indices
\* 0..num_files-1; a step of a rotation destroys no file other than the one
\* at index num_files-1, and a rotation that started with num_files files
\* and succeeded has destroyed exactly that file.
C8_RetentionBound ==
    /\ [](\A p \in Existing(fs) : p <= config.num_files - 1)
    /\ [](Cardinality(Existing(fs)) <= config.num_files)
    /\ [][(pc \in CritPcs) =>
            /\ Files(fs) \ Files(fs') \subseteq {fs[config.num_files - 1]}
            /\ (Files(fs) \ Files(fs') # {} =>
                    Cardinality(Existing(pre)) = config.num_files)]_vars
    /\ [][(pc = "restore" /\ pc' = "ret" /\ res = "ok"
              /\ pre[config.num_files - 1].exists) =>
            pre[config.num_files - 1] \notin Files(fs')]_vars

\* C8 witness: a rotation that started with num_files >= 2 files has
\* returned; the file that was at index num_files-1 is gone and num_files
\* files exist.
C8_Witness ==
    /\ pc = "ret" /\ res = "ok" /\ config.num_files >= 2
    /\ pre[config.num_files - 1].exists
    /\ pre[config.num_files - 1] \notin Files(fs)
    /\ Cardinality(Existing(fs)) = config.num_files

\* C9: after a successful run on L bytes with q = L div file_size, exactly
\* the indices 0..min(q, num_files-1) exist, index 0 holds the input bytes
\* [q*S, L) and index k >= 1 holds [(q-k)*S, (q-k+1)*S); for 25 bytes with
\* file_size 10, num_files 3 and buffer 100 the files 0, 1, 2 hold bytes
\* 20..24, 10..19 and 0..9 and the mirror holds the whole input.
C9_FinalLayout ==
    Success =>
        /\ \A p \in Idx : fs[p].exists <=> p <= Min(Quot, config.num_files - 1)
        /\ fs[0].data = SubSeq(input, Quot * config.file_size + 1, Len(input))
        /\ \A k \in 1..Min(Quot, config.num_files - 1) :
              fs[k].data = SubSeq(input, (Quot - k) * config.file_size + 1,
                                  (Quot - k + 1) * config.file_size)
        /\ (config = ScenarioConfig /\ input = ScenarioInput) =>
              /\ Existing(fs) = {0, 1, 2}
              /\ fs[0].data = <<20, 21, 22, 23, 24>>
              /\ fs[1].data = <<10, 11, 12, 13, 14, 15, 16, 17, 18, 19>>
              /\ fs[2].data = <<0, 1, 2, 3, 4, 5, 6, 7, 8, 9>>
              /\ mirror = input

\* C9 witness: the 25-byte run has ended successfully.
C9_Witness ==
    Success /\ config = ScenarioConfig /\ input = ScenarioInput /\ nrot = 2

\* Number of input bytes run has accounted for (idx and cur_size advanced).
Processed == pos - nbytes + idx

\* C10: at every loop head the number of rotations is the number of
\* processed bytes div file_size and cur_size is the remainder; cur_size
\* reaches file_size only on the way into rotate; and after a successful
\* run on a non-empty input whose length is a multiple of file_size the
\* index-0 file exists, is empty, and is one of the min(q+1, num_files)
\* files.
C10_EagerRotation ==
    /\ pc \in {"read", "write"} =>
          /\ nrot = Processed \div config.file_size
          /\ cur_size = Processed % config.file_size
    /\ pc \in {"read", "write", "echo", "advance"} => cur_size < config.file_size
    /\ pc = "block" =>
          (cur_size = config.file_size /\ Len(fs[0].data) = config.file_size)
    /\ (Success /\ Len(input) > 0 /\ Len(input) % config.file_size = 0) =>
          /\ nrot = Quot
          /\ fs[0].exists /\ fs[0].data = <<>>
          /\ Cardinality(Existing(fs)) = Min(Quot + 1, config.num_files)

\* C10 witness: a successful run whose input is twice file_size: two
\* rotations, and an empty index-0 file beside a full index-1 file.
C10_Witness ==
    /\ Success /\ Len(input) = 2 * config.file_size /\ config.file_size = 2
    /\ nrot = 2 /\ fs[0].exists /\ fs[0].data = <<>>
    /\ config.num_files = 2 /\ Len(fs[1].data) = 2

\* One byte b appended to the newest of the files `files' (newest first), by
\* a run that reads one byte at a time: the write, then the rotation if the
\* file is full.
RefStep(files, b) ==
    LET f0 == Append(files[1], b)
        kept == <<f0>> \o Tail(files)
    IN  IF Len(f0) >= config.file_size
        THEN << <<>> >> \o SubSeq(kept, 1, Min(Len(kept), config.num_files - 1))
        ELSE kept

\* The contents of the output files, index 0 first, after the reference run
\* that reads the first k input bytes one byte per read.
RECURSIVE RefFiles(_)
RefFiles(k) ==
    IF k = 0 THEN << <<>> >> ELSE RefStep(RefFiles(k - 1), input[k])

\* C11: every successful run, whatever the buffer size and however the reads
\* were chunked, ends with the files of the one-byte-per-read reference run
\* of the same input, file_size and num_files, and with the same mirror.
C11_ChunkingIndependent ==
    Success =>
        LET ref == RefFiles(Len(input))
        IN  /\ Existing(fs) = 0..(Len(ref) - 1)
            /\ \A p \in Existing(fs) : fs[p].data = ref[p + 1]
            /\ mirror = IF config.no_echo THEN <<>> ELSE input

\* C11 witness: a successful run with a buffer larger than a file, in which
\* one read returned a chunk spanning a rotation and another read returned
\* less than the buffer.
C11_Witness ==
    /\ Success /\ config.buffer_size > config.file_size
    /\ nrot >= 3 /\ nbytes < config.buffer_size /\ Len(input) > nbytes
    /\ config.num_files = 2

\* some numeric option is zero
ZeroOption ==
    config.file_size = 0 \/ config.num_files = 0 \/ config.buffer_size = 0

\* C12: when file_size, num_files or buffer_size is zero, no output file is
\* ever created, no input is read, nothing is echoed, and the process leaves
\* main only by exiting with failure (or by a signal before the checks).
C12_ConfigRejected ==
    ZeroOption =>
        /\ \A p \in Idx : fs[p] = NoFile
        /\ nextId = 1 /\ of = 0
        /\ pos = 0 /\ mirror = <<>> /\ written = <<>>
        /\ pc \in {"main", "exited", "killed"}
        /\ (pc = "exited") => (status = "failure")

\* C12 witness: file_size alone is zero, there is input to read, and the
\* process has exited with failure.
C12_Witness ==
    /\ config.file_size = 0 /\ config.num_files > 0 /\ config.buffer_size > 0
    /\ Len(input) > 0
    /\ pc = "exited" /\ status = "failure"

\* The process is inside rotate (lines 47-67).
InRotate == pc \in MaskedPcs \cup {"ret"}

\* Input bytes are their own stream offsets (Stream), so a byte comes later
\* in the input than another exactly when it is greater.
\* C13: outside a rotation, for existing indices p < q every byte of file p
\* comes later in the input than every byte of file q, the bytes of one file
\* are in stream order, and a non-empty index-0 file ends with the byte
\* written last.
C13_AgeOrdering ==
    ~InRotate =>
        /\ \A p, q \in Existing(fs) :
              p < q => \A a \in 1..Len(fs[p].data), b \in 1..Len(fs[q].data) :
                          fs[p].data[a] > fs[q].data[b]
        /\ \A p \in Existing(fs) :
              \A a, b \in 1..Len(fs[p].data) :
                  a < b => fs[p].data[a] < fs[p].data[b]
        /\ (Exists(fs, 0) /\ fs[0].data # <<>>) =>
              fs[0].data[Len(fs[0].data)] = written[Len(written)]

\* C13 witness: outside a rotation three files exist and each holds data.
C13_Witness ==
    /\ ~InRotate /\ nrot >= 3
    /\ \A p \in 0..2 : Exists(fs, p) /\ fs[p].data # <<>>

\* An operation has failed and the error is on its way out of run: at the
\* restoring sigprocmask or the return of a failed rotation, or at main's
\* error exit.
Failed == pc = "fail" \/ (pc \in {"restore", "ret"} /\ res = "err")

\* C14: from the first failure on, no step reads input, writes a file or the
\* mirror, renames or creates (the files stay exactly as the failure left
\* them); the error only propagates, and the run ends with a failure exit
\* unless a SIGTERM terminates the process first.
C14_FailStop ==
    /\ [][Failed =>
            /\ fs' = fs /\ nextId' = nextId
            /\ mirror' = mirror /\ written' = written /\ pos' = pos
            /\ Failed' \/ pc' \in {"exited", "killed"}
            /\ (pc' = "exited") => (status' = "failure")]_vars
    /\ Failed ~> ((pc = "exited" /\ status = "failure") \/ pc = "killed")

\* C14 witness: the run has exited with failure after a file write failed
\* part-way through a slice, in a later file of the run, leaving the partly
\* written file and the rotated files in place.
C14_Witness ==
    /\ pc = "exited" /\ status = "failure" /\ ~ZeroOption
    /\ nrot >= 1 /\ Exists(fs, 0) /\ Exists(fs, 1)
    /\ fs[0].data # <<>> /\ Len(fs[0].data) > cur_size
    /\ Len(written) < pos

\* rotate_inner has returned Ok and the mask is restored: the rotation has
\* succeeded; `pre' is the directory as it was when rotate was called.
Rotated == pc = "ret" /\ res = "ok"

\* C15: after a successful rotation every file that was at an index
\* p <= num_files - 2 is at index p + 1, the same file with the same content;
\* index 0 is an empty file; and the only file whose content is gone is the
\* one that was at index num_files - 1.
C15_ShiftPreserves ==
    Rotated =>
        /\ \A p \in 0..(config.num_files - 2) :
              pre[p].exists => fs[p + 1] = pre[p]
        /\ Exists(fs, 0) /\ fs[0].data = <<>> /\ fs[0].id = newf
        /\ Files(pre) \ Files(fs) \subseteq {pre[config.num_files - 1]}
        /\ Existing(fs) = {0} \cup {p + 1 : p \in Existing(pre) \ {config.num_files - 1}}

\* C15 witness: a rotation has succeeded with three files kept, all three
\* indices were occupied by non-empty files before it, so two renames each
\* had an existing target and the oldest file was replaced.
C15_Witness ==
    /\ Rotated /\ config.num_files = 3
    /\ \A p \in 0..2 : pre[p].exists /\ pre[p].data # <<>>
    /\ ~(pre[2] \in Files(fs))

\* run is in its read loop (lines 140-166), not inside rotate.
LoopPcs == {"sigemptyset", "sigfillset", "read", "write", "echo", "advance", "block"}

\* C16: while run is in its loop outside rotate, the one output handle `of'
\* is open and refers to the file named index 0, and a write changes no
\* other file; inside rotate the handle is closed before the first rename
\* and stays closed until rotate returns; and a file that has reached an
\* index >= 1 never returns to index 0 and its content never changes again.
C16_HandleDiscipline ==
    /\ [](pc \in LoopPcs => (of # 0 /\ Exists(fs, 0) /\ fs[0].id = of))
    /\ [](pc \in {"shift", "create", "restore"} => of = 0)
    /\ [][(pc = "write") => \A p \in Idx \ {0} : fs'[p] = fs[p]]_vars
    /\ [][\A p \in Idx \ {0}, q \in Idx :
            (fs[p].exists /\ fs'[q].exists /\ fs'[q].id = fs[p].id) =>
                (q >= 1 /\ fs'[q].data = fs[p].data)]_vars

\* C16 witness: after two rotations a slice is about to be written, through
\* a handle that is none of the rotated files.
C16_Witness ==
    /\ pc = "write" /\ nrot >= 2 /\ of # 0
    /\ Exists(fs, 1) /\ Exists(fs, 2)
    /\ fs[1].id # of /\ fs[2].id # of /\ fs[1].data # <<>>

\* C17: with num_files = 1 the shift loop has no iteration (no rename is
\* ever attempted), only index 0 ever exists, a successful rotation leaves
\* the index-0 file empty where it held file_size bytes before, and after a
\* successful run on L bytes index 0 holds the last L mod file_size bytes.
C17_SingleFile ==
    config.num_files = 1 =>
        /\ pc # "shift"
        /\ Existing(fs) \subseteq {0}
        /\ Rotated => /\ Exists(fs, 0) /\ fs[0].data = <<>>
                      /\ Len(pre[0].data) = config.file_size
        /\ Success =>
              LET L == Len(input)
              IN  /\ Exists(fs, 0)
                  /\ fs[0].data = SubSeq(input, L - (L % config.file_size) + 1, L)

\* C17 witness: a successful run with one file kept that rotated twice and
\* ended with a non-empty remainder in index 0.
C17_Witness ==
    /\ config.num_files = 1 /\ Success /\ nrot >= 2
    /\ fs[0].data # <<>> /\ Len(input) % config.file_size # 0

\* C18: whenever a slice size is computed (line 155) cur_size is within
\* 0..file_size-1 and the chunk has bytes left, so the slice has at least
\* one byte; every pass of the inner loop writes a non-empty slice and moves
\* idx forward; and a run with valid options in which no call fails and no
\* signal arrives ends with a successful exit.
C18_Progress ==
    /\ [](pc = "write" =>
            /\ 0 <= cur_size /\ cur_size < config.file_size
            /\ idx < nbytes
            /\ WriteSize(nbytes, idx, config.file_size, cur_size) >= 1)
    /\ [][(pc = "write") => Len(bytes') >= 1]_vars
    /\ [][(pc = "advance") => (idx' > idx /\ idx' <= nbytes)]_vars
    /\ (pc = "main" /\ ~ZeroOption) ~> (Success /\ pos = Len(input))

\* C18 witness: after a rotation a slice size is computed with the file
\* partly full and more bytes left in the chunk than the file has room for.
C18_Witness ==
    /\ pc = "write" /\ nrot >= 1 /\ cur_size > 0
    /\ nbytes - idx > config.file_size - cur_size

\* s is a prefix of t
IsPrefix(s, t) == Len(s) <= Len(t) /\ s = SubSeq(t, 1, Len(s))

\* C19: with echo enabled the mirror is a prefix of the input and of the
\* bytes written to the output files, behind them by at most the current
\* slice and level with them whenever run is in its loop and not between the
\* file write and the echo; a failed file write leaves the mirror as it was,
\* and a failed echo leaves the files at most one slice ahead.
C19_MirrorBehind ==
    /\ [](~config.no_echo =>
            /\ IsPrefix(mirror, input) /\ IsPrefix(mirror, written)
            /\ IsPrefix(written, input)
            /\ Len(written) - Len(mirror) <= Len(bytes)
            /\ (pc \in LoopPcs \ {"echo"}) => (mirror = written))
    /\ [][(~config.no_echo /\ pc = "write" /\ pc' = "fail") =>
            (mirror' = mirror /\ mirror = written)]_vars
    /\ [][(~config.no_echo /\ pc = "echo" /\ pc' = "fail") =>
            /\ written' = written /\ fs' = fs /\ IsPrefix(mirror', written)
            /\ Len(written) - Len(mirror') \in 1..Len(bytes)]_vars

\* C19 witness: with echo enabled, after at least one mirrored slice, the
\* run has failed with the files one byte ahead of the mirror inside a
\* two-byte slice.
C19_Witness ==
    /\ ~config.no_echo /\ pc = "fail" /\ mirror # <<>>
    /\ Len(bytes) = 2 /\ Len(written) - Len(mirror) = 1

\* The existing indices are 0..m for some m, except for at most one missing
\* index.
AtMostOneGap ==
    \E m \in -1..(config.num_files - 1) :
        \/ Existing(fs) = 0..m
        \/ \E g \in 0..m : Existing(fs) = (0..m) \ {g}

\* C20 (as stated): once index 0 has been created, in every state outside a
\* rotation the existing indices are exactly 0..min(r, num_files-1), r the
\* number of completed rotations, and cur_size is the size of the index-0
\* file.
C20_Contiguous ==
    (Created0 /\ ~InRotate) =>
        /\ Existing(fs) = 0..Min(nrot, config.num_files - 1)
        /\ cur_size = Len(fs[0].data)

\* C20 (amended): while run is in its loop outside rotate the existing
\* indices are exactly 0..min(r, num_files-1); cur_size is the size of the
\* index-0 file at every loop head and on entry to rotate, and between a file
\* write and its accounting the file is ahead of cur_size by exactly the
\* slice just written; a successful run ends with both facts true; and
\* wherever the run stops (error or signal included) the existing indices
\* lie within 0..min(r+1, num_files-1) with at most one index missing.
C20_ContiguousInLoop ==
    /\ (pc \in LoopPcs) =>
          /\ Existing(fs) = 0..Min(nrot, config.num_files - 1)
          /\ (pc \notin {"echo", "advance"}) => (cur_size = Len(fs[0].data))
          /\ (pc \in {"echo", "advance"}) =>
                (Len(fs[0].data) = cur_size + Len(bytes) /\ Len(bytes) >= 1)
    /\ Success =>
          /\ Existing(fs) = 0..Min(nrot, config.num_files - 1)
          /\ cur_size = Len(fs[0].data)
    /\ (Created0 /\ ~InRotate) =>
          /\ AtMostOneGap
          /\ Existing(fs) \subseteq 0..Min(nrot + 1, config.num_files - 1)

\* C20 witness: in the loop after two rotations with three files kept, all
\* three indices exist and a slice has been written to the index-0 file and
\* is not yet accounted for.
C20_Witness ==
    /\ pc = "advance" /\ nrot >= 2 /\ config.num_files = 3
    /\ Len(fs[0].data) > cur_size
    /\ Existing(fs) = 0..2

=============================================================================
